---- MODULE Spec2Model ----
(***************************************************************************)
(* Model of two Home Assistant integrations:                               *)
(*   - components/meraki/device_tracker.py : the Meraki CMX webhook        *)
(*     (MerakiView.post and MerakiView._handle);                           *)
(*   - components/synology_dsm/__init__.py : async_setup_entry and         *)
(*     async_unload_entry.                                                 *)
(* JSON values are modelled by strings; a key that is not in a JSON object *)
(* is the marker Absent, a JSON null is the marker Null.  location.unc is  *)
(* kept as a sequence of characters so that float() and int() can be       *)
(* computed the way Python computes them.                                  *)
(***************************************************************************)
EXTENDS Integers, Sequences, FiniteSets, TLC

VARIABLES reqs, tasks, hass_data, entries, apis, services, last_call, hist

vars == <<reqs, tasks, hass_data, entries, apis, services, last_call, hist>>
meraki_vars == <<reqs, tasks>>
dsm_vars == <<hass_data, entries, apis, services, last_call, hist>>

(* ------------------------------ bounds -------------------------------- *)
\* longest data.observations sequence of a modelled POST
MaxObs == 2
\* number of POSTs in a run of the fire-and-forget specification
MaxReq == 2
\* number of SynoApi objects created in a run
MaxApis == 2

(* ------------------------- JSON value markers ------------------------- *)
Absent == "<absent>"
Null == "<null>"
\* Python truthiness of a JSON scalar read with dict.get(key, False)
Truthy(v) == v \notin {Absent, Null, ""}

(* ------------------------ meraki: constants --------------------------- *)
VERSION == "2.0"
VERSION2 == "2.1"
SOURCE_TYPE_ROUTER == "router"
DeviceTypes == {"DevicesSeen", "BluetoothDevicesSeen"}
UNPROCESSABLE_ENTITY == 422
BAD_REQUEST == 400
\* config[CONF_SECRET], read once in MerakiView.__init__
ConfiguredSecret == "s1"

(* ------------------- float() and int() of location.unc ---------------- *)
Digits == {"0", "1", "2", "3", "4", "5", "6", "7", "8", "9"}
DigitVal(c) ==
    CASE c = "0" -> 0 [] c = "1" -> 1 [] c = "2" -> 2 [] c = "3" -> 3
      [] c = "4" -> 4 [] c = "5" -> 5 [] c = "6" -> 6 [] c = "7" -> 7
      [] c = "8" -> 8 [] c = "9" -> 9

RECURSIVE DigitsValue(_)
DigitsValue(cs) ==
    IF cs = <<>> THEN 0
    ELSE 10 * DigitsValue(SubSeq(cs, 1, Len(cs) - 1)) + DigitVal(cs[Len(cs)])

AllDigits(cs) == \A i \in 1..Len(cs) : cs[i] \in Digits
DotPositions(cs) == {i \in 1..Len(cs) : cs[i] = "."}

\* float(s) of a character sequence: [kind, neg, ip] with kind one of
\* "finite" (ip is the integer part of the magnitude), "inf", "nan",
\* "ValueError"
PyFloat(cs) ==
    LET signed == cs # <<>> /\ cs[1] \in {"-", "+"}
        neg == cs # <<>> /\ cs[1] = "-"
        body == IF signed THEN SubSeq(cs, 2, Len(cs)) ELSE cs
        dots == DotPositions(body)
        dot == IF dots = {} THEN Len(body) + 1 ELSE CHOOSE i \in dots : TRUE
        ipart == SubSeq(body, 1, dot - 1)
        fpart == SubSeq(body, dot + 1, Len(body))
    IN  IF body = <<"i", "n", "f">> THEN [kind |-> "inf", neg |-> neg, ip |-> 0]
        ELSE IF body = <<"n", "a", "n">> THEN [kind |-> "nan", neg |-> neg, ip |-> 0]
        ELSE IF /\ Cardinality(dots) <= 1
                /\ AllDigits(ipart) /\ AllDigits(fpart)
                /\ Len(ipart) + Len(fpart) > 0
             THEN [kind |-> "finite", neg |-> neg, ip |-> DigitsValue(ipart)]
        ELSE [kind |-> "ValueError", neg |-> FALSE, ip |-> 0]

\* int(f) of a float: truncation toward zero; int(inf) raises OverflowError,
\* int(nan) raises ValueError
PyInt(f) ==
    CASE f.kind = "finite" -> [exc |-> "none", value |-> IF f.neg THEN 0 - f.ip ELSE f.ip]
      [] f.kind = "inf" -> [exc |-> "OverflowError", value |-> 0]
      [] OTHER -> [exc |-> "ValueError", value |-> 0]

\* gps_accuracy values: None or an integer
AccNone == [none |-> TRUE, value |-> 0]
AccInt(n) == [none |-> FALSE, value |-> n]

\* lines 99-102: accuracy = int(float(i["location"]["unc"])), ValueError -> 0.
\* unc is [kind, chars]: kind "absent" (no such key: KeyError), "null"
\* (float(None): TypeError), "str" or "num" (a JSON string or number).
Accuracy(unc) ==
    CASE unc.kind = "absent" -> [exc |-> "KeyError", acc |-> AccNone]
      [] unc.kind = "null" -> [exc |-> "TypeError", acc |-> AccNone]
      [] OTHER ->
           LET r == PyInt(PyFloat(unc.chars))
           IN  IF r.exc = "ValueError" THEN [exc |-> "none", acc |-> AccInt(0)]
               ELSE IF r.exc = "none" THEN [exc |-> "none", acc |-> AccInt(r.value)]
               ELSE [exc |-> r.exc, acc |-> AccNone]

(* ------------------------- meraki: log events ------------------------- *)
\* One _LOGGER call.  payload is <<>> when the call formats no payload and
\* <<data>> when it formats json.dumps(data): the serialization carries
\* every key of the payload as it is at the time of the call.
LogEvent(level, msg, arg) == [level |-> level, msg |-> msg, arg |-> arg, payload |-> <<>>]
LogPayload(level, msg, data) == [level |-> level, msg |-> msg, arg |-> "", payload |-> <<data>>]

(* --------------------- meraki: MerakiView._handle --------------------- *)
GpsNone == <<>>
AttrKeys == {"os", "manufacturer", "ipv4", "ipv6", "seenTime", "ssid"}

\* lines 114-131: the attributes mapping of one observation
Attributes(i, ap_mac) ==
    LET keys == {k \in AttrKeys : Truthy(i[k])}
                  \cup (IF Truthy(ap_mac) THEN {"ap_mac"} ELSE {})
    IN  [k \in keys |-> IF k = "ap_mac" THEN ap_mac ELSE i[k]]

\* lines 104-143: the keyword arguments of one self.async_see(...) call,
\* given the accuracy computed at lines 99-102
SeeArgs(i, ap_mac, accuracy) ==
    LET lat == i.location.lat
        lng == i.location.lng
        mac == i.clientMac
        nan == lat = "NaN" \/ lng = "NaN"
    IN  [gps |-> IF nan THEN GpsNone ELSE <<lat, lng>>,
         mac |-> mac,
         dev_id |-> mac,
         host_name |-> IF i.name = Absent THEN mac ELSE i.name,
         source_type |-> SOURCE_TYPE_ROUTER,
         gps_accuracy |-> IF nan THEN AccNone ELSE accuracy,
         attributes |-> Attributes(i, ap_mac)]

\* lines 105-108: the debug calls of one iteration
ObservationLog(i) ==
    <<LogEvent("debug", "clientMac", i.clientMac)>>
    \o (IF i.location.lat = "NaN" \/ i.location.lng = "NaN"
        THEN <<LogEvent("debug", "No coordinates received", i.clientMac)>>
        ELSE <<>>)

\* line 95: data["data"]["secret"] = "hidden"
Redact(data) == [data EXCEPT !.data.secret = "hidden"]

\* lines 94-143: the loop from observation k on; st is [exc, calls, log, data].
\* An exception of lines 99-102 other than ValueError leaves the loop with the
\* tasks of the earlier observations already created.
RECURSIVE HandleLoop(_, _, _)
HandleLoop(k, ap_mac, st) ==
    LET obs == st.data.data.observations
    IN  IF k > Len(obs) THEN st
        ELSE LET i == obs[k]
                 a == Accuracy(i.location.unc)
                 d == Redact(st.data)
             IN  IF a.exc # "none"
                 THEN [st EXCEPT !.exc = a.exc, !.data = d]
                 ELSE HandleLoop(k + 1, ap_mac,
                        [exc |-> "none",
                         calls |-> Append(st.calls, SeeArgs(i, ap_mac, a.acc)),
                         log |-> st.log \o ObservationLog(i),
                         data |-> d])

\* lines 91-143: _handle(hass, data); line 93 raises KeyError when the
\* payload has no data.apMac
Handle(data, log) ==
    IF data.data.apMac = Absent
    THEN [exc |-> "KeyError", calls |-> <<>>, log |-> log, data |-> data]
    ELSE HandleLoop(1, data.data.apMac,
                    [exc |-> "none", calls |-> <<>>, log |-> log, data |-> data])

(* ----------------------- meraki: MerakiView.post ---------------------- *)
Message(msg, status) == [kind |-> "message", status |-> status, msg |-> msg, exc |-> "none"]
ReturnNone == [kind |-> "none", status |-> 0, msg |-> "", exc |-> "none"]
Raised(exc) == [kind |-> "raise", status |-> 0, msg |-> "", exc |-> exc]

\* line 70: not data.get("secret", False)
SecretMissing(data) == ~Truthy(data.secret)
\* line 73: data["secret"] != self.secret
SecretMismatch_dropped(secret, data) == FALSE
SecretMismatch(secret, data) == data.secret # secret
\* line 76
VersionInvalid_typo(data) == data.version # VERSION /\ data.version = VERSION2
VersionInvalid(data) == data.version # VERSION /\ data.version # VERSION2
\* line 80
TypeInvalid(data) == data.type \notin DeviceTypes
\* line 86: not data["data"]["observations"]
NoObservations_dropped(data) == FALSE
NoObservations(data) == data.data.observations = <<>>

Outcome(result, calls, log, data) ==
    [result |-> result, calls |-> calls, log |-> log, data |-> data]

\* lines 63-89: what one POST returns or raises, the async_see calls it
\* schedules, the log calls it makes, and the payload as it leaves it
post(secret, body) ==
    IF ~body.json_ok
    THEN Outcome(Message("Invalid JSON", BAD_REQUEST), <<>>, <<>>, body)
    ELSE
    LET data == body
        l0 == <<LogPayload("debug", "Meraki Data from Post", data)>>
    IN  IF SecretMissing(data)
        THEN Outcome(Message("No secret", UNPROCESSABLE_ENTITY), <<>>,
                     Append(l0, LogEvent("error", "The secret is invalid", "")), data)
        ELSE IF SecretMismatch(secret, data)
        THEN Outcome(Message("Invalid secret", UNPROCESSABLE_ENTITY), <<>>,
                     Append(l0, LogEvent("error", "Invalid Secret received from Meraki", "")), data)
        ELSE IF VersionInvalid(data)
        THEN Outcome(Message("Invalid version", UNPROCESSABLE_ENTITY), <<>>,
                     Append(l0, LogEvent("error", "Invalid API version", data.version)), data)
        ELSE LET l1 == Append(l0, LogEvent("debug", "Valid Secret", ""))
             IN  IF TypeInvalid(data)
                 THEN Outcome(Message("Invalid device type", UNPROCESSABLE_ENTITY), <<>>,
                              Append(l1, LogEvent("error", "Unknown Device", data.type)), data)
                 ELSE LET l2 == Append(l1, LogEvent("debug", "Processing", data.type))
                      IN  IF NoObservations(data)
                          THEN Outcome(ReturnNone, <<>>,
                                       Append(l2, LogEvent("debug", "No observations found", "")),
                                       data)
                          ELSE LET h == Handle(data, l2)
                               IN  Outcome(IF h.exc = "none" THEN ReturnNone ELSE Raised(h.exc),
                                           h.calls, h.log, h.data)

(* -------------------- meraki: the POST bodies posted ------------------ *)
Chars(kind, cs) == [kind |-> kind, chars |-> cs]
UncAbsent == Chars("absent", <<>>)
UncValues ==
    { UncAbsent,
      Chars("null", <<>>),
      Chars("num", <<"7">>),
      Chars("str", <<"5", ".", "0">>),
      Chars("str", <<"1", "2", ".", "7">>),
      Chars("str", <<"-", "0", ".", "5">>),
      Chars("str", <<"a", "b", "c">>),
      Chars("str", <<"n", "a", "n">>),
      Chars("str", <<"i", "n", "f">>) }

Obs(mac, lat, lng, unc, name, os, ssid) ==
    [clientMac |-> mac,
     location |-> [lat |-> lat, lng |-> lng, unc |-> unc],
     name |-> name, os |-> os, manufacturer |-> Absent, ipv4 |-> Absent,
     ipv6 |-> Absent, seenTime |-> Absent, ssid |-> ssid]

Coordinates == {<<"40.1", "-3.7">>, <<"NaN", "-3.7">>, <<"40.1", "NaN">>, <<"nan", "0">>}

\* observations that vary the location, and observations that vary the
\* optional descriptive keys
ObsDomain ==
    { Obs("11:22", c[1], c[2], u, Absent, Absent, Absent) :
        c \in Coordinates \ {<<"nan", "0">>}, u \in UncValues }
    \cup { Obs("33:44", "nan", "0", Chars("str", <<"5", ".", "0">>), n, "", s) :
             n \in {Absent, "phone"}, s \in {Absent, "", "Guest"} }

OGood == Obs("11:22", "40.1", "-3.7", Chars("str", <<"5", ".", "0">>), Absent, Absent, "Guest")
ONaN == Obs("33:44", "NaN", "-3.7", Chars("str", <<"5", ".", "0">>), "phone", Absent, Absent)
ONoUnc == Obs("33:44", "40.1", "-3.7", UncAbsent, Absent, Absent, Absent)

SeqsUpTo(S, n) == UNION {[1..k -> S] : k \in 0..n}

Body(secret, version, type, apMac, observations) ==
    [json_ok |-> TRUE, secret |-> secret, version |-> version, type |-> type,
     data |-> [apMac |-> apMac, secret |-> Absent, observations |-> observations]]
\* a body request.json() raises ValueError on
InvalidBody == [Body(Absent, Absent, Absent, Absent, <<>>) EXCEPT !.json_ok = FALSE]

Secrets == {Absent, "", ConfiguredSecret, "wrong"}
Versions == {VERSION, VERSION2, "1.0"}
Types == DeviceTypes \cup {"Other"}
ApMacs == {Absent, "", "AA:BB"}

\* every header with a few observation lists, and every observation list
\* under the accepted headers
Requests ==
    {InvalidBody}
    \cup { Body(s, v, t, a, o) :
             s \in Secrets, v \in Versions, t \in Types, a \in ApMacs,
             o \in {<<>>, <<OGood>>, <<OGood, ONaN>>} }
    \cup { Body(ConfiguredSecret, VERSION2, "BluetoothDevicesSeen", a, o) :
             a \in ApMacs, o \in SeqsUpTo(ObsDomain, MaxObs) }

\* the bodies of the runs with several requests in flight
SmallRequests ==
    { Body(ConfiguredSecret, VERSION, "DevicesSeen", "AA:BB", <<OGood>>),
      Body(ConfiguredSecret, VERSION, "DevicesSeen", "AA:BB", <<OGood, ONaN>>),
      Body(ConfiguredSecret, VERSION, "DevicesSeen", "AA:BB", <<OGood, ONoUnc>>),
      Body(ConfiguredSecret, VERSION, "DevicesSeen", Absent, <<>>),
      Body("wrong", VERSION, "DevicesSeen", "AA:BB", <<OGood>>) }

(* --------------------------- meraki: state ---------------------------- *)
\* reqs: one record per POST received, in order of arrival
\*   body   the JSON body sent
\*   pc     "reading" (suspended in await request.json()) or "done"
\*   result what post returned or raised
\*   log    the _LOGGER calls of the request, in order
\*   data   the payload object as the handler left it
\* tasks: the tasks made by hass.async_create_task, in order of creation
\*   rid    the request that created it
\*   args   the keyword arguments of async_see
\*   state  "pending", "done" or "failed"
Pending == [kind |-> "pending", status |-> 0, msg |-> "", exc |-> "none"]

\* line 66: the request arrives and the handler suspends reading the body
Receive(body) ==
    /\ reqs' = Append(reqs, [body |-> body, pc |-> "reading", result |-> Pending,
                             log |-> <<>>, data |-> body])
    /\ UNCHANGED <<tasks, dsm_vars>>

\* lines 133-143: hass.async_create_task(self.async_see(...)) per call
NewTasks(r, calls) ==
    [k \in 1..Len(calls) |-> [rid |-> r, args |-> calls[k], state |-> "pending"]]

\* lines 66-89: the body is read and the handler runs to its return
PostRun(r) ==
    /\ reqs[r].pc = "reading"
    /\ LET o == post(ConfiguredSecret, reqs[r].body)
       IN  /\ reqs' = [reqs EXCEPT ![r] = [body |-> reqs[r].body, pc |-> "done",
                                           result |-> o.result, log |-> o.log,
                                           data |-> o.data]]
           /\ tasks' = tasks \o NewTasks(r, o.calls)
    /\ UNCHANGED dsm_vars

\* a scheduled async_see call completes
SinkDone(t) ==
    /\ tasks[t].state = "pending"
    /\ tasks' = [tasks EXCEPT ![t].state = "done"]
    /\ UNCHANGED <<reqs, dsm_vars>>

\* a scheduled async_see call raises; had the handler awaited the call, the
\* exception would have replaced the response of the request
SinkFail_awaited(t) ==
    /\ tasks[t].state = "pending"
    /\ tasks' = [tasks EXCEPT ![t].state = "failed"]
    /\ reqs' = [reqs EXCEPT ![tasks[t].rid].result = Raised("SinkError")]
    /\ UNCHANGED dsm_vars

\* a scheduled async_see call raises: the exception stays in the task
SinkFail(t) ==
    /\ tasks[t].state = "pending"
    /\ tasks' = [tasks EXCEPT ![t].state = "failed"]
    /\ UNCHANGED <<reqs, dsm_vars>>

(* ====================--- synology_dsm/__init__.py ---================== *)
\* DOMAIN of .const (DOMAIN is a TLA+ keyword)
DSM_DOMAIN == "synology_dsm"
\* names imported from .const and from the synology_dsm package
DEFAULT_VERIFY_SSL == "DEFAULT_VERIFY_SSL"
EXCEPTION_UNKNOWN == "EXCEPTION_UNKNOWN"
CAMERA_API_KEY == "CAMERA_API_KEY"
INFO_API_KEY == "INFO_API_KEY"
HOME_MODE_API_KEY == "HOME_MODE_API_KEY"

\* the config entries; entry.unique_id is the entry's own name
Entries == {"entry1", "entry2"}

(* ------------------------------ dsm: state ---------------------------- *)
\* hass_data[e]  hass.data[DOMAIN][e.unique_id]: NoRecord or a SynologyDSMData
\* entries[e]    entry.data (verify_ssl, mac), the identifiers of the entry's
\*               device, whether the platforms of the entry are set up and
\*               whether its update listener is registered
\* apis          the SynoApi objects created, in order: [entry, state] with
\*               state "setup", "failed" or "unloaded"
\* services      whether async_setup_services has run
\* last_call     the most recent call, its inputs, its result and the state
\*               it started from
\* hist[e]       last_setup: how the most recent async_setup_entry of e
\*               ended ("none", "ok", "failed"); completed: an
\*               async_setup_entry of e has returned True since the last
\*               async_unload_entry of e that returned True
NoRecord ==
    [present |-> FALSE, api |-> 0, coordinator_central |-> FALSE,
     coordinator_cameras |-> FALSE, coordinator_switches |-> FALSE]

Return(v) == [kind |-> "return", value |-> v, exc |-> "none", msg |-> ""]
Raise(exc, msg) == [kind |-> "raise", value |-> FALSE, exc |-> exc, msg |-> msg]

ApiOutcomes == {"ok", "auth", "conn", "other"}
NoInput ==
    [api |-> "ok", args |-> "dict", central |-> "ok", avail |-> {},
     cameras |-> "ok", sw_refresh |-> "ok", sw_setup |-> "ok", unload_ok |-> FALSE]

HasSwitchApis(avail) == INFO_API_KEY \in avail /\ HOME_MODE_API_KEY \in avail

\* what the collaborators of one async_setup_entry call do:
\*   api        api.async_setup(): "ok", or it raises one of
\*              SYNOLOGY_AUTH_FAILED_EXCEPTIONS ("auth"), one of
\*              SYNOLOGY_CONNECTION_EXCEPTIONS ("conn"), or another exception
\*   args       err.args[0]: a dict with EXCEPTION_DETAILS ("details"), a
\*              dict without ("dict"), or no dict ("nodict")
\*   central, cameras, sw_refresh   async_config_entry_first_refresh():
\*              "ok" or "fail" (it raises ConfigEntryNotReady)
\*   avail      api.dsm.apis
\*   sw_setup   coordinator_switches.async_setup(): "ok", "conn" or "other"
\* Inputs the call never reads are held at their defaults.
SetupInputs ==
    { in \in [api : ApiOutcomes, args : {"details", "dict", "nodict"},
              central : {"ok", "fail"},
              avail : SUBSET {CAMERA_API_KEY, INFO_API_KEY, HOME_MODE_API_KEY},
              cameras : {"ok", "fail"}, sw_refresh : {"ok", "fail"},
              sw_setup : {"ok", "conn", "other"}, unload_ok : {FALSE}] :
        /\ in.api \in {"ok", "other"} => in.args = "dict"
        /\ in.api # "ok" => in.central = "ok"
        /\ (in.api # "ok" \/ in.central # "ok") => in.avail = {}
        /\ CAMERA_API_KEY \notin in.avail => in.cameras = "ok"
        /\ (~HasSwitchApis(in.avail) \/ in.cameras # "ok") => in.sw_refresh = "ok"
        /\ (~HasSwitchApis(in.avail) \/ in.cameras # "ok" \/ in.sw_refresh # "ok")
             => in.sw_setup = "ok" }

\* lines 68-71 and 74-77
Details(args) == IF args = "details" THEN "details" ELSE EXCEPTION_UNKNOWN

\* lines 64-113: how far the call gets and what it returns or raises
SetupFlow(in) ==
    IF in.api = "auth"
    THEN [stage |-> "api", result |-> Raise("ConfigEntryAuthFailed", "reason: " \o Details(in.args))]
    ELSE IF in.api = "conn"
    THEN [stage |-> "api", result |-> Raise("ConfigEntryNotReady", Details(in.args))]
    ELSE IF in.api = "other"
    THEN [stage |-> "api", result |-> Raise("Exception", "")]
    ELSE IF in.central = "fail"
    THEN [stage |-> "refresh", result |-> Raise("ConfigEntryNotReady", "")]
    ELSE IF CAMERA_API_KEY \in in.avail /\ in.cameras = "fail"
    THEN [stage |-> "refresh", result |-> Raise("ConfigEntryNotReady", "")]
    ELSE IF HasSwitchApis(in.avail) /\ in.sw_refresh = "fail"
    THEN [stage |-> "refresh", result |-> Raise("ConfigEntryNotReady", "")]
    ELSE IF HasSwitchApis(in.avail) /\ in.sw_setup = "conn"
    THEN [stage |-> "switch_setup", result |-> Raise("ConfigEntryNotReady", "")]
    ELSE IF HasSwitchApis(in.avail) /\ in.sw_setup = "other"
    THEN [stage |-> "switch_setup", result |-> Raise("Exception", "")]
    ELSE [stage |-> "complete", result |-> Return(TRUE)]

\* lines 115-123 run only when nothing was raised before them
StoresRecord_early(stage) == stage \in {"complete", "switch_setup"}
StoresRecord(stage) == stage = "complete"

\* lines 46-55: an identifier of more than two parts keeps its first part and
\* joins the others with "_"
RECURSIVE JoinParts(_)
JoinParts(parts) ==
    IF Len(parts) = 1 THEN parts[1]
    ELSE parts[1] \o "_" \o JoinParts(Tail(parts))
MigrateIdentifier(ident) ==
    IF Len(ident) > 2 THEN <<ident[1], JoinParts(Tail(ident))>> ELSE ident

\* lines 115-120
NewRecord(api, avail) ==
    [present |-> TRUE, api |-> api, coordinator_central |-> TRUE,
     coordinator_cameras |-> CAMERA_API_KEY \in avail,
     coordinator_switches |-> HasSwitchApis(avail)]

Snapshot == [hass_data |-> hass_data, entries |-> entries, apis |-> apis]

\* lines 38-125
async_setup_entry(e, in) ==
    LET flow == SetupFlow(in)
        api_ok == in.api = "ok"
        stored == StoresRecord(flow.stage)
        ent == entries[e]
        \* lines 41-61, before the API is set up
        ent1 == [ent EXCEPT !.identifiers = MigrateIdentifier(@),
                            !.verify_ssl = IF @ = Absent THEN DEFAULT_VERIFY_SSL ELSE @]
        \* lines 84-88, after the API and the services are set up
        ent2 == IF api_ok /\ ~Truthy(ent1.mac)
                THEN [ent1 EXCEPT !.mac = "network.macs"] ELSE ent1
        \* lines 122-123
        ent3 == IF stored THEN [ent2 EXCEPT !.platforms = TRUE, !.listener = TRUE]
                ELSE ent2
    IN  /\ Len(apis) < MaxApis
        /\ apis' = Append(apis, [entry |-> e, state |-> IF api_ok THEN "setup" ELSE "failed"])
        /\ services' = (services \/ api_ok)
        /\ entries' = [entries EXCEPT ![e] = ent3]
        /\ hass_data' = IF stored
                        THEN [hass_data EXCEPT ![e] = NewRecord(Len(apis) + 1, in.avail)]
                        ELSE hass_data
        /\ last_call' = [fn |-> "setup", entry |-> e, in |-> in,
                         result |-> flow.result, before |-> Snapshot]
        /\ hist' = [hist EXCEPT ![e] =
                      [last_setup |-> IF flow.result.kind = "return" THEN "ok" ELSE "failed",
                       completed |-> @.completed \/ flow.result.kind = "return"]]
        /\ UNCHANGED meraki_vars

\* lines 130-134: [result, pops]; pops says whether lines 132-133 unload the
\* API of the record and pop the record
UnloadFlow_dedent(present, unload_ok) ==
    IF ~present /\ unload_ok THEN [result |-> Raise("KeyError", ""), pops |-> FALSE]
    ELSE [result |-> Return(unload_ok), pops |-> present]
UnloadFlow(present, unload_ok) ==
    IF unload_ok
    THEN IF present THEN [result |-> Return(TRUE), pops |-> TRUE]
         ELSE [result |-> Raise("KeyError", ""), pops |-> FALSE]
    ELSE [result |-> Return(FALSE), pops |-> FALSE]

\* lines 128-134; unload_ok is what hass.config_entries.async_unload_platforms
\* answers, and with it the platforms of the entry are unloaded.  The host
\* runs the entry's on-unload callbacks (line 123) when the call returns True.
async_unload_entry(e, unload_ok) ==
    LET rec == hass_data[e]
        flow == UnloadFlow(rec.present, unload_ok)
        unloaded == flow.result.kind = "return" /\ flow.result.value
    IN  /\ apis' = IF flow.pops THEN [apis EXCEPT ![rec.api].state = "unloaded"] ELSE apis
        /\ hass_data' = IF flow.pops THEN [hass_data EXCEPT ![e] = NoRecord] ELSE hass_data
        /\ entries' = [entries EXCEPT ![e].platforms = IF unload_ok THEN FALSE ELSE @,
                                      ![e].listener = IF unloaded THEN FALSE ELSE @]
        /\ last_call' = [fn |-> "unload", entry |-> e,
                         in |-> [NoInput EXCEPT !.unload_ok = unload_ok],
                         result |-> flow.result, before |-> Snapshot]
        /\ hist' = [hist EXCEPT ![e].completed = IF unloaded THEN FALSE ELSE @]
        /\ UNCHANGED <<services, meraki_vars>>

(* --------------------------- specifications --------------------------- *)
MerakiInit == reqs = <<>> /\ tasks = <<>>

FreshEntry(ident, ssl, mac) ==
    [identifiers |-> ident, verify_ssl |-> ssl, mac |-> mac,
     platforms |-> FALSE, listener |-> FALSE]
\* an entry written by an old release (a three-part device identifier, no
\* verify_ssl, no mac) and an entry of the current release
EntryConfigs ==
    { FreshEntry(<<DSM_DOMAIN, "SN1", "volume", "1">>, Absent, Absent),
      FreshEntry(<<DSM_DOMAIN, "SN1">>, "True", "00:11:32") }

DsmStart ==
    /\ hass_data = [e \in Entries |-> NoRecord]
    /\ apis = <<>>
    /\ services = FALSE
    /\ last_call = [fn |-> "none", entry |-> "none", in |-> NoInput,
                    result |-> Return(FALSE),
                    before |-> [hass_data |-> hass_data, entries |-> entries, apis |-> apis]]
    /\ hist = [e \in Entries |-> [last_setup |-> "none", completed |-> FALSE]]

\* no POST received and no entry set up; the entries as the host loads them
Init ==
    /\ MerakiInit
    /\ entries \in [Entries -> EntryConfigs]
    /\ DsmStart

\* the webhook alone: the entries stay as they are
InitMeraki ==
    /\ MerakiInit
    /\ entries = [e \in Entries |-> FreshEntry(<<DSM_DOMAIN, "SN1">>, "True", "00:11:32")]
    /\ DsmStart

\* one POST, drawn from Requests
PostOne == reqs = <<>> /\ \E b \in Requests : Receive(b)
RunPost == \E r \in 1..Len(reqs) : PostRun(r)
NextPost == PostOne \/ RunPost
SpecPost == InitMeraki /\ [][NextPost]_vars

\* up to MaxReq POSTs in flight together with the tasks they create
PostSome == Len(reqs) < MaxReq /\ \E b \in SmallRequests : Receive(b)
SinkCompletes == \E t \in 1..Len(tasks) : SinkDone(t)
SinkRaises == \E t \in 1..Len(tasks) : SinkFail(t)
NextAsync == PostSome \/ RunPost \/ SinkCompletes \/ SinkRaises
SpecAsync == InitMeraki /\ [][NextAsync]_vars

\* the host sets up and unloads the entries
SetupEntry == \E e \in Entries : \E in \in SetupInputs : async_setup_entry(e, in)
UnloadEntry == \E e \in Entries : \E ok \in BOOLEAN : async_unload_entry(e, ok)
NextDsm == SetupEntry \/ UnloadEntry
SpecDsm == Init /\ [][NextDsm]_vars

Next == NextAsync \/ NextDsm
Spec == Init /\ [][Next]_vars

(* ------------------------------ properties ---------------------------- *)
Handled == {r \in 1..Len(reqs) : reqs[r].pc = "done" /\ reqs[r].body.json_ok}
\* the async_see calls request r scheduled, in the order it scheduled them
CallsOf(r) ==
    LET mine == SelectSeq(tasks, LAMBDA t : t.rid = r)
    IN  [k \in 1..Len(mine) |-> mine[k].args]
Is422(r) == reqs[r].result.kind = "message" /\ reqs[r].result.status = 422
SecretOk(b) == b.secret \notin {Absent, Null, ""} /\ b.secret = ConfiguredSecret
HeaderOk(b) ==
    /\ SecretOk(b)
    /\ b.version \in {"2.0", "2.1"}
    /\ b.type \in {"DevicesSeen", "BluetoothDevicesSeen"}
IsNaN(o) == o.location.lat = "NaN" \/ o.location.lng = "NaN"

\* C1: a POST whose secret is absent, falsy or different from the configured
\* secret is answered 422 and schedules no async_see call, whatever its
\* version, type and observations are.
C1_BadSecretRejected ==
    \A r \in Handled :
        ~SecretOk(reqs[r].body) => Is422(r) /\ CallsOf(r) = <<>>

\* C1 witness: a POST with a wrong secret and everything else acceptable,
\* observations included, has been answered.
C1_Witness ==
    \E r \in Handled :
        LET b == reqs[r].body
        IN  /\ b.secret = "wrong" /\ b.version = "2.0" /\ b.type = "DevicesSeen"
            /\ b.data.apMac = "AA:BB" /\ b.data.observations # <<>>
            /\ Is422(r)

C3_SecretRedactedBeforeLogging ==
    \A r \in Handled :
        \A k \in 1..Len(reqs[r].log) :
            LET ev == reqs[r].log[k]
            IN  ev.payload # <<>> => ev.payload[1].secret # ConfiguredSecret

\* the unc values C4 names: a number, a numeric string, a non-numeric string,
\* or no unc at all
NamedUnc(unc) ==
    \/ unc.kind = "absent"
    \/ unc.kind \in {"str", "num"} /\ PyFloat(unc.chars).kind \in {"finite", "ValueError"}
\* what C4 says gps_accuracy is
ClaimedAccuracy(unc) ==
    IF unc.kind \in {"str", "num"} /\ PyFloat(unc.chars).kind = "finite"
    THEN AccInt(PyInt(PyFloat(unc.chars)).value)
    ELSE AccInt(0)
\* a POST that passed every check of post, with an apMac, whose observations
\* carry only the unc values C4 names
Accepted(r) ==
    LET b == reqs[r].body
    IN  /\ HeaderOk(b)
        /\ b.data.observations # <<>>
        /\ b.data.apMac # Absent
        /\ \A k \in 1..Len(b.data.observations) :
              NamedUnc(b.data.observations[k].location.unc)

\* C4: every observation with coordinates other than "NaN" is dispatched with
\* gps_accuracy the integer parse of location.unc, or 0 when unc is missing
\* or not numeric, and the request raises nothing.
C4_AccuracyParsedOrZero ==
    \A r \in Handled :
        Accepted(r) =>
            LET obs == reqs[r].body.data.observations
                calls == CallsOf(r)
            IN  \A k \in 1..Len(obs) :
                    ~IsNaN(obs[k]) =>
                        /\ reqs[r].result.kind # "raise"
                        /\ k <= Len(calls)
                        /\ calls[k].gps_accuracy = ClaimedAccuracy(obs[k].location.unc)

\* C5: every observation whose lat or lng is "NaN" is dispatched with gps
\* None and gps_accuracy None, whatever location.unc is, also when there is
\* none.
C5_NaNDispatchedWithoutGps ==
    \A r \in Handled :
        Accepted(r) =>
            LET obs == reqs[r].body.data.observations
                calls == CallsOf(r)
            IN  \A k \in 1..Len(obs) :
                    IsNaN(obs[k]) =>
                        /\ k <= Len(calls)
                        /\ calls[k].gps = GpsNone
                        /\ calls[k].gps_accuracy = AccNone

\* C6: a POST that passes validation with n observations schedules exactly n
\* async_see calls, the k-th with the clientMac of the k-th observation as
\* mac and dev_id.
C6_OneCallPerObservation ==
    \A r \in Handled :
        Accepted(r) =>
            LET obs == reqs[r].body.data.observations
                calls == CallsOf(r)
            IN  /\ Len(calls) = Len(obs)
                /\ \A k \in 1..Len(obs) :
                      calls[k].mac = obs[k].clientMac /\ calls[k].dev_id = obs[k].clientMac

\* C7: a POST with valid secret, version and type and no observations
\* schedules no async_see call and ends without an error answer and without
\* an exception, with or without data.apMac.
C7_EmptyObservationsNoError ==
    \A r \in Handled :
        LET b == reqs[r].body
        IN  (HeaderOk(b) /\ b.data.observations = <<>>)
            => reqs[r].result.kind = "none" /\ CallsOf(r) = <<>>

\* C7 witness: such a POST without data.apMac has been handled.
C7_Witness ==
    \E r \in Handled :
        LET b == reqs[r].body
        IN  /\ HeaderOk(b) /\ b.data.observations = <<>> /\ b.data.apMac = Absent
            /\ reqs[r].result.kind = "none"

\* C8: the handler answers without waiting for the calls it scheduled, and
\* a call that completes, fails or stays pending changes no request: a step
\* that ends a request leaves every call of that request pending, a step
\* that changes a task leaves reqs as it is, and a request that is done
\* stays as it is.
C8_FireAndForget ==
    [][ /\ \A r \in 1..Len(reqs) :
              reqs[r].pc = "done" => reqs'[r] = reqs[r]
        /\ \A r \in 1..Len(reqs) :
              (reqs[r].pc = "reading" /\ reqs'[r].pc = "done")
                  => \A t \in 1..Len(tasks') :
                         tasks'[t].rid = r => tasks'[t].state = "pending"
        /\ (\E t \in 1..Len(tasks) : tasks'[t] # tasks[t]) => reqs' = reqs
      ]_vars

\* C8 witness: a call of an answered request has failed while another call is
\* still pending and another request is in flight; the answer is the one the
\* handler gave.
C8_Witness ==
    \E t \in 1..Len(tasks) :
        /\ tasks[t].state = "failed"
        /\ reqs[tasks[t].rid].pc = "done"
        /\ reqs[tasks[t].rid].result.kind = "none"
        /\ \E u \in 1..Len(tasks) : tasks[u].state = "pending"
        /\ \E r \in 1..Len(reqs) : r # tasks[t].rid /\ reqs[r].pc = "reading"

\* C9 as stated: after any sequence of async_setup_entry and
\* async_unload_entry calls, hass.data[DOMAIN] holds a record of the entry
\* only if the most recent async_setup_entry of the entry ran to completion.
C9_RecordOnlyIfLastSetupCompleted ==
    \A e \in Entries : hass_data[e].present => hist[e].last_setup = "ok"

\* C9 as amended: hass.data[DOMAIN] holds a record of the entry only if an
\* async_setup_entry of the entry has run to completion since the last
\* async_unload_entry of the entry that returned True; an auth exception of
\* the API setup ends the call with ConfigEntryAuthFailed, a connection
\* exception of the API setup or of the switch coordinator setup with
\* ConfigEntryNotReady; a call that raises leaves hass.data[DOMAIN] and the
\* set-up platforms as they were.
C9_RecordOnlyAfterCompletedSetup ==
    /\ \A e \in Entries : hass_data[e].present => hist[e].completed
    /\ last_call.fn = "setup" =>
          LET in == last_call.in
              res == last_call.result
          IN  /\ in.api = "auth" =>
                    res.kind = "raise" /\ res.exc = "ConfigEntryAuthFailed"
              /\ (in.api = "conn" \/ in.sw_setup = "conn") =>
                    res.kind = "raise" /\ res.exc = "ConfigEntryNotReady"
              /\ res.kind = "raise" =>
                    /\ hass_data = last_call.before.hass_data
                    /\ \A e \in Entries :
                          entries[e].platforms = last_call.before.entries[e].platforms

\* C9 witness: an entry was set up and unloaded, and its next setup has just
\* failed in the switch coordinator setup; no record is stored.
C9_Witness ==
    /\ last_call.fn = "setup"
    /\ last_call.in.sw_setup = "conn"
    /\ last_call.result.exc = "ConfigEntryNotReady"
    /\ ~hass_data[last_call.entry].present
    /\ Len(apis) = 2
    /\ apis[1] = [entry |-> last_call.entry, state |-> "unloaded"]

\* C10: for an entry with a record in hass.data[DOMAIN], async_unload_entry
\* unloads the API and removes the record if and only if the platform unload
\* reported success; on failure the record and the API stay as they were and
\* the call returns False.
C10_UnloadIffPlatformsUnloaded ==
    (last_call.fn = "unload" /\ last_call.before.hass_data[last_call.entry].present) =>
        LET e == last_call.entry
            ok == last_call.in.unload_ok
            rec == last_call.before.hass_data[e]
        IN  /\ ok <=> ~hass_data[e].present
            /\ ok <=> (apis[rec.api].state = "unloaded")
            /\ last_call.result = Return(ok)
            /\ ~ok => hass_data[e] = rec /\ apis = last_call.before.apis

\* C10 witness: the platform unload of a set-up entry has just failed.
C10_Witness ==
    /\ last_call.fn = "unload"
    /\ last_call.before.hass_data[last_call.entry].present
    /\ ~last_call.in.unload_ok
    /\ last_call.result = Return(FALSE)
    /\ hass_data[last_call.entry].present
====
